---- MODULE Spec2Model ----
(***************************************************************************)
(* Model of the alpaca-py broker/common request and account models.        *)
(*                                                                         *)
(* Every class is a pydantic (v1) model.  Constructing one runs, in order: *)
(* the class's own __init__ override (if any), pydantic's per-field        *)
(* validation in declaration order (type check, then the @validator        *)
(* functions, which see only the fields validated before them), and then   *)
(* the @root_validator functions.  An exception of type ValueError raised  *)
(* by a validator is collected and reported as a ValidationError; any      *)
(* other exception leaves the constructor as it is.                        *)
(*                                                                         *)
(* Python values are tagged records [t |-> type, v |-> payload].  A str    *)
(* that the code parses character by character (dates, amounts) carries a  *)
(* sequence of one-character strings as payload, any other str a string.   *)
(***************************************************************************)
EXTENDS Integers, Sequences, FiniteSets, TLC

VARIABLES cls, kwargs, outcome, obj, fields, assigned

vars == <<cls, kwargs, outcome, obj, fields, assigned>>

(***************************************************************************)
(* Bounds of the model.                                                    *)
(***************************************************************************)
\* longest amount string given to a transfer request
MaxAmountLen == 3
\* number of days of each month the calendar inputs range over
MaxDay == 2
\* most fields passed for a nested record of an AccountUpdateRequest
MaxNested == 1

(***************************************************************************)
(* Python values.                                                          *)
(***************************************************************************)
None == [t |-> "NoneType", v |-> ""]
Str(s) == [t |-> "str", v |-> s]
Text(chars) == [t |-> "text", v |-> chars]
Enum(e, m) == [t |-> e, v |-> m]
Date(y, m, d) == [t |-> "date", v |-> <<y, m, d>>]
Uuid(u) == [t |-> "UUID", v |-> u]
StrList(l) == [t |-> "List[str]", v |-> l]
W8BenDoc(n) == [t |-> "W8BenDocument", v |-> n]
PyBool(b) == [t |-> "bool", v |-> b]
PyInt(n) == [t |-> "int", v |-> n]
Datetime(y, m, d) == [t |-> "datetime", v |-> <<y, m, d, 0, 0, 0>>]
List(ty, l) == [t |-> ty, v |-> l]
\* a plain dict
Dict(d) == [t |-> "dict", v |-> d]
\* an instance of model class c with the field values d
Model(c, d) == [t |-> c, v |-> d]
\* a value of a type no field accepts (an arbitrary object)
Bogus == [t |-> "object", v |-> ""]

IsNone(x) == x.t = "NoneType"
\* Python's == on two values
PyEq(a, b) == a.t = b.t /\ a.v = b.v

\* a keyword argument the caller left out
Missing == [t |-> "<omitted>", v |-> ""]
\* the kwargs dict of a call: the arguments that were passed
Passed(r) == [k \in {f \in DOMAIN r : r[f].t # "<omitted>"} |-> r[k]]
\* dict(d, **{k: x})
Put(d, k, x) == [f \in DOMAIN d \cup {k} |-> IF f = k THEN x ELSE d[f]]
EmptyDict == [k \in {} |-> None]

(***************************************************************************)
(* Enumerations (alpaca.broker.enums): the members the models refer to and *)
(* one or two further members of each.                                     *)
(***************************************************************************)
Members(e) ==
    CASE e = "DocumentType" -> {"W8BEN", "IDENTITY_VERIFICATION", "ADDRESS_VERIFICATION"}
      [] e = "UploadDocumentSubType" -> {"FORM_W8_BEN", "PASSPORT", "ACCOUNT_APPLICATION"}
      [] e = "UploadDocumentMimeType" -> {"JSON", "PDF", "PNG"}
      [] e = "IdentifierType" -> {"ABA", "BIC"}
      [] e = "TransferType" -> {"ACH", "WIRE"}
      [] e = "TransferDirection" -> {"INCOMING", "OUTGOING"}
      [] e = "TransferTiming" -> {"IMMEDIATE"}
      [] e = "FeePaymentMethod" -> {"USER", "INVOICE"}
      [] e = "TradeDocumentType" -> {"ACCOUNT_STATEMENT", "TRADE_CONFIRMATION"}
      [] e = "Sort" -> {"ASC", "DESC"}
      [] e = "ActivityType" -> {"FILL", "DIV"}
      [] e = "AccountStatus" -> {"ACTIVE", "SUBMITTED"}
      [] e = "AccountEntities" -> {"CONTACT", "IDENTITY"}
      [] e = "BankAccountType" -> {"CHECKING", "SAVINGS"}
      [] e = "EmploymentStatus" -> {"EMPLOYED", "UNEMPLOYED"}
      [] e = "VisaType" -> {"B1", "F1"}
      [] e = "FundingSource" -> {"EMPLOYMENT_INCOME", "SAVINGS"}
      [] e = "AgreementType" -> {"MARGIN", "ACCOUNT", "CUSTOMER"}
      [] e = "TaxIdType" -> {"USA_SSN", "NOT_SPECIFIED"}
      [] e = "ClearingBroker" -> {"VELOX", "APEX"}
      [] OTHER -> {}

EnumTypes ==
    {"DocumentType", "UploadDocumentSubType", "UploadDocumentMimeType", "IdentifierType",
     "TransferType", "TransferDirection", "TransferTiming", "FeePaymentMethod",
     "TradeDocumentType", "Sort", "ActivityType", "AccountStatus", "AccountEntities",
     "BankAccountType", "EmploymentStatus", "VisaType", "FundingSource", "AgreementType",
     "TaxIdType", "ClearingBroker"}

\* List[T]: the type of its elements
ElementType(ty) ==
    CASE ty = "List[ActivityType]" -> "ActivityType"
      [] ty = "List[Agreement]" -> "Agreement"
      [] ty = "List[AccountDocument]" -> "AccountDocument"
      [] ty = "List[AccountStatus]" -> "AccountStatus"
      [] ty = "List[AccountEntities]" -> "AccountEntities"
      [] ty = "List[FundingSource]" -> "FundingSource"

EnumListTypes ==
    {"List[ActivityType]", "List[AccountStatus]", "List[AccountEntities]", "List[FundingSource]"}

(***************************************************************************)
(* Results of a call: a returned value or a raised exception.              *)
(***************************************************************************)
Ret(x) == [exc |-> "none", v |-> x]
Raise(e) == [exc |-> e, v |-> None]

\* the exceptions pydantic turns into an entry of the ValidationError
Caught == {"ValueError", "TypeError", "AssertionError"}

(***************************************************************************)
(* Calendar dates: datetime.date, date.fromisoformat, date.isoformat.      *)
(***************************************************************************)
Digits == <<"0", "1", "2", "3", "4", "5", "6", "7", "8", "9">>
DigitChars == {Digits[i] : i \in 1..10}
DigitVal(ch) == (CHOOSE i \in 1..10 : Digits[i] = ch) - 1
DigitChar(n) == Digits[n + 1]

IsLeap(y) == (y % 4 = 0 /\ y % 100 # 0) \/ y % 400 = 0
DaysInMonth(y, m) ==
    IF m = 2 THEN (IF IsLeap(y) THEN 29 ELSE 28)
    ELSE IF m \in {4, 6, 9, 11} THEN 30 ELSE 31

\* date.isoformat(): YYYY-MM-DD
isoformat(d) ==
    LET y == d.v[1]
        m == d.v[2]
        dd == d.v[3]
    IN  <<DigitChar(y \div 1000), DigitChar((y \div 100) % 10), DigitChar((y \div 10) % 10),
          DigitChar(y % 10), "-", DigitChar(m \div 10), DigitChar(m % 10), "-",
          DigitChar(dd \div 10), DigitChar(dd % 10)>>

\* date.fromisoformat(s) for a str s: the date, or ValueError
fromisoformat(s) ==
    IF /\ Len(s) = 10
       /\ s[5] = "-"
       /\ s[8] = "-"
       /\ \A i \in {1, 2, 3, 4, 6, 7, 9, 10} : s[i] \in DigitChars
    THEN LET y == 1000 * DigitVal(s[1]) + 100 * DigitVal(s[2]) + 10 * DigitVal(s[3]) + DigitVal(s[4])
             m == 10 * DigitVal(s[6]) + DigitVal(s[7])
             d == 10 * DigitVal(s[9]) + DigitVal(s[10])
         IN  IF y >= 1 /\ m \in 1..12 /\ d >= 1 /\ d <= DaysInMonth(y, m)
             THEN Ret(Date(y, m, d))
             ELSE Raise("ValueError")
    ELSE Raise("ValueError")

\* date.__gt__
DateGt(a, b) ==
    \/ a.v[1] > b.v[1]
    \/ a.v[1] = b.v[1] /\ a.v[2] > b.v[2]
    \/ a.v[1] = b.v[1] /\ a.v[2] = b.v[2] /\ a.v[3] > b.v[3]

(***************************************************************************)
(* uuid.UUID(hex) for a str: hyphens are dropped, and what is left must be *)
(* 32 hexadecimal digits (the strings of the model are in lower case and   *)
(* without braces or a urn: prefix).                                       *)
(***************************************************************************)
HexChars == DigitChars \cup {"a", "b", "c", "d", "e", "f"}

RECURSIVE Remove(_, _)
Remove(s, ch) ==
    IF Len(s) = 0 THEN <<>>
    ELSE IF Head(s) = ch THEN Remove(Tail(s), ch)
    ELSE <<Head(s)>> \o Remove(Tail(s), ch)

UUID(s) ==
    LET hex == Remove(s, "-")
    IN  IF Len(hex) = 32 /\ \A i \in 1..Len(hex) : hex[i] \in HexChars
        THEN Ret(Uuid(hex))
        ELSE Raise("ValueError")

(***************************************************************************)
(* float(str): the value of a numeric string, "nan", or ValueError.  A     *)
(* finite value is num / 10^exp, exactly (the strings of the model are far *)
(* too short to round or underflow).                                       *)
(***************************************************************************)
RECURSIVE Mantissa(_)
Mantissa(s) ==
    IF Len(s) = 0 THEN 0
    ELSE LET ch == s[Len(s)]
             front == SubSeq(s, 1, Len(s) - 1)
         IN  IF ch = "." THEN Mantissa(front) ELSE 10 * Mantissa(front) + DigitVal(ch)

DotCount(s) == Cardinality({i \in 1..Len(s) : s[i] = "."})
DigitCount(s) == Cardinality({i \in 1..Len(s) : s[i] \in DigitChars})
FractionDigits(s) ==
    IF DotCount(s) = 0 THEN 0
    ELSE Len(s) - (CHOOSE i \in 1..Len(s) : s[i] = ".")

float(s) ==
    LET signed == Len(s) > 0 /\ s[1] \in {"-", "+"}
        neg == Len(s) > 0 /\ s[1] = "-"
        body == IF signed THEN Tail(s) ELSE s
    IN  IF body = <<"n", "a", "n">> THEN Ret([kind |-> "nan", num |-> 0, exp |-> 0])
        ELSE IF /\ \A i \in 1..Len(body) : body[i] \in DigitChars \cup {"."}
                /\ DotCount(body) <= 1
                /\ DigitCount(body) >= 1
        THEN Ret([kind |-> "finite",
                  num |-> IF neg THEN 0 - Mantissa(body) ELSE Mantissa(body),
                  exp |-> FractionDigits(body)])
        ELSE Raise("ValueError")

\* x <= 0 for a float x: false for nan
FloatLeZero(x) == x.kind = "finite" /\ x.num <= 0

(***************************************************************************)
(* Field declarations.  `name: T` is required; `name: Optional[T]`, with   *)
(* or without `= None`, is not required, allows None and defaults to None; *)
(* `name: T = d` is not required and defaults to d.                        *)
(***************************************************************************)
Req(n, ty) == [name |-> n, type |-> ty, allow_none |-> FALSE, required |-> TRUE, default |-> None]
Opt(n, ty) == [name |-> n, type |-> ty, allow_none |-> TRUE, required |-> FALSE, default |-> None]
Dflt(n, ty, d) == [name |-> n, type |-> ty, allow_none |-> FALSE, required |-> FALSE, default |-> d]

Contact ==
    <<Req("email_address", "str"), Req("phone_number", "str"), Req("street_address", "List[str]"),
      Opt("unit", "str"), Req("city", "str"), Opt("state", "str"), Opt("postal_code", "str"),
      Opt("country", "str")>>

TrustedContact ==
    <<Req("given_name", "str"), Req("family_name", "str"), Opt("email_address", "str"),
      Opt("phone_number", "str"), Opt("street_address", "str"), Opt("city", "str"),
      Opt("state", "str"), Opt("postal_code", "str"), Opt("country", "str")>>

GetTradeDocumentsRequest ==
    <<Opt("start", "Union[date, str]"), Opt("end", "Union[date, str]"),
      Opt("type", "TradeDocumentType")>>

UploadDocumentRequest ==
    <<Req("document_type", "DocumentType"), Opt("document_sub_type", "UploadDocumentSubType"),
      Req("content", "str"), Req("mime_type", "UploadDocumentMimeType")>>

UploadW8BenDocumentRequest ==
    <<Req("document_type", "DocumentType"), Req("document_sub_type", "UploadDocumentSubType"),
      Opt("content", "str"), Opt("content_data", "W8BenDocument"),
      Req("mime_type", "UploadDocumentMimeType")>>

CreateBankRequest ==
    <<Req("name", "str"), Req("bank_code_type", "IdentifierType"), Req("bank_code", "str"),
      Req("account_number", "str"), Opt("country", "str"), Opt("state_province", "str"),
      Opt("postal_code", "str"), Opt("city", "str"), Opt("street_address", "str")>>

\* the fields a subclass declares come after the inherited ones
_CreateTransferRequest ==
    <<Req("amount", "str"), Req("direction", "TransferDirection"),
      Req("timing", "TransferTiming"), Opt("fee_payment_method", "FeePaymentMethod")>>

\* mutant: transfer_type has no default
CreateACHTransferRequest_no_default ==
    _CreateTransferRequest \o
    <<Req("relationship_id", "UUID"), Opt("transfer_type", "TransferType")>>

CreateACHTransferRequest ==
    _CreateTransferRequest \o
    <<Req("relationship_id", "UUID"), Dflt("transfer_type", "TransferType", Enum("TransferType", "ACH"))>>

CreateBankTransferRequest ==
    _CreateTransferRequest \o
    <<Req("bank_id", "UUID"), Dflt("transfer_type", "TransferType", Enum("TransferType", "WIRE")),
      Opt("additional_information", "str")>>

\* mutant: street_address is a single string, as it is in TrustedContact
UpdatableContact_str_address ==
    <<Opt("email_address", "str"), Opt("phone_number", "str"), Opt("street_address", "str"),
      Opt("unit", "str"), Opt("city", "str"), Opt("state", "str"), Opt("postal_code", "str"),
      Opt("country", "str")>>

\* a subclass that declares an inherited field again keeps the field's place
UpdatableContact ==
    <<Opt("email_address", "str"), Opt("phone_number", "str"), Opt("street_address", "List[str]"),
      Opt("unit", "str"), Opt("city", "str"), Opt("state", "str"), Opt("postal_code", "str"),
      Opt("country", "str")>>

UpdatableIdentity ==
    <<Opt("given_name", "str"), Opt("middle_name", "str"), Opt("family_name", "str"),
      Opt("visa_type", "VisaType"), Opt("visa_expiration_date", "str"),
      Opt("date_of_departure_from_usa", "str"), Opt("permanent_resident", "bool"),
      Opt("funding_source", "List[FundingSource]"), Opt("annual_income_min", "float"),
      Opt("annual_income_max", "float"), Opt("liquid_net_worth_min", "float"),
      Opt("liquid_net_worth_max", "float"), Opt("total_net_worth_min", "float"),
      Opt("total_net_worth_max", "float")>>

UpdatableDisclosures ==
    <<Opt("is_control_person", "bool"), Opt("is_affiliated_exchange_or_finra", "bool"),
      Opt("is_politically_exposed", "bool"), Opt("immediate_family_exposed", "bool"),
      Opt("employment_status", "EmploymentStatus"), Opt("employer_name", "str"),
      Opt("employer_address", "str"), Opt("employment_position", "str")>>

UpdatableTrustedContact ==
    <<Opt("given_name", "str"), Opt("family_name", "str"), Opt("email_address", "str"),
      Opt("phone_number", "str"), Opt("street_address", "str"), Opt("city", "str"),
      Opt("state", "str"), Opt("postal_code", "str"), Opt("country", "str")>>

AccountUpdateRequest ==
    <<Opt("contact", "UpdatableContact"), Opt("identity", "UpdatableIdentity"),
      Opt("disclosures", "UpdatableDisclosures"), Opt("trusted_contact", "UpdatableTrustedContact")>>

ListAccountsRequest ==
    <<Opt("query", "str"), Opt("created_before", "datetime"), Opt("created_after", "datetime"),
      Opt("status", "List[AccountStatus]"), Req("sort", "Sort"),
      Opt("entities", "List[AccountEntities]")>>

GetAccountActivitiesRequest ==
    <<Opt("account_id", "Union[UUID, str]"), Opt("activity_types", "List[ActivityType]"),
      Opt("date", "datetime"), Opt("until", "datetime"), Opt("after", "datetime"),
      Opt("direction", "Sort"), Opt("page_size", "int"), Opt("page_token", "Union[UUID, str]")>>

ClosePositionRequest == <<Req("qty", "str"), Req("percentage", "str")>>

GetPortfolioHistoryRequest ==
    <<Opt("period", "str"), Opt("timeframe", "str"), Opt("date_end", "date"),
      Opt("extended_hours", "bool")>>

CreateACHRelationshipRequest ==
    <<Req("account_owner_name", "str"), Req("bank_account_type", "BankAccountType"),
      Req("bank_account_number", "str"), Req("bank_routing_number", "str"), Opt("nickname", "str")>>

CreatePlaidRelationshipRequest == <<Req("processor_token", "str")>>

GetTransfersRequest ==
    <<Opt("direction", "TransferDirection"), Opt("limit", "int"), Opt("offset", "int")>>

Identity ==
    <<Req("given_name", "str"), Opt("middle_name", "str"), Req("family_name", "str"),
      Req("date_of_birth", "str"), Opt("tax_id", "str"), Opt("tax_id_type", "TaxIdType"),
      Opt("country_of_citizenship", "str"), Opt("country_of_birth", "str"),
      Req("country_of_tax_residence", "str"), Opt("visa_type", "VisaType"),
      Opt("visa_expiration_date", "str"), Opt("date_of_departure_from_usa", "str"),
      Opt("permanent_resident", "bool"), Opt("funding_source", "List[FundingSource]"),
      Opt("annual_income_min", "float"), Opt("annual_income_max", "float"),
      Opt("liquid_net_worth_min", "float"), Opt("liquid_net_worth_max", "float"),
      Opt("total_net_worth_min", "float"), Opt("total_net_worth_max", "float")>>

Disclosures ==
    <<Req("is_control_person", "bool"), Req("is_affiliated_exchange_or_finra", "bool"),
      Req("is_politically_exposed", "bool"), Req("immediate_family_exposed", "bool"),
      Opt("employment_status", "EmploymentStatus"), Opt("employer_name", "str"),
      Opt("employer_address", "str"), Opt("employment_position", "str")>>

Agreement ==
    <<Req("agreement", "AgreementType"), Req("signed_at", "str"), Req("ip_address", "str"),
      Opt("revision", "str")>>

Account ==
    <<Req("id", "UUID"), Req("account_number", "str"), Req("status", "AccountStatus"),
      Opt("crypto_status", "AccountStatus"), Req("currency", "str"), Req("last_equity", "str"),
      Req("created_at", "str"), Opt("contact", "Contact"), Opt("identity", "Identity"),
      Opt("disclosures", "Disclosures"), Opt("agreements", "List[Agreement]"),
      Opt("documents", "List[AccountDocument]"), Opt("trusted_contact", "TrustedContact")>>

TradeAccount ==
    <<Req("id", "UUID"), Req("account_number", "str"), Req("status", "AccountStatus"),
      Opt("crypto_status", "AccountStatus"), Opt("currency", "str"), Req("buying_power", "str"),
      Req("regt_buying_power", "str"), Req("daytrading_buying_power", "str"),
      Req("non_marginable_buying_power", "str"), Req("cash", "str"),
      Opt("cash_withdrawable", "str"), Opt("cash_transferable", "str"),
      Req("accrued_fees", "str"), Opt("pending_transfer_out", "str"),
      Opt("pending_transfer_in", "str"), Req("portfolio_value", "str"),
      Req("pattern_day_trader", "bool"), Req("trading_blocked", "bool"),
      Req("transfers_blocked", "bool"), Req("account_blocked", "bool"),
      Req("created_at", "datetime"), Req("trade_suspended_by_user", "bool"),
      Req("multiplier", "str"), Req("shorting_enabled", "bool"), Req("equity", "str"),
      Req("last_equity", "str"), Req("long_market_value", "str"),
      Req("short_market_value", "str"), Req("initial_margin", "str"),
      Req("maintenance_margin", "str"), Req("last_maintenance_margin", "str"),
      Req("sma", "str"), Req("daytrade_count", "int"), Opt("previous_close", "datetime"),
      Opt("last_long_market_value", "str"), Opt("last_short_market_value", "str"),
      Opt("last_cash", "str"), Opt("last_initial_margin", "str"),
      Opt("last_regt_buying_power", "str"), Opt("last_daytrading_buying_power", "str"),
      Opt("last_daytrade_count", "int"), Opt("last_buying_power", "str"),
      Opt("clearing_broker", "ClearingBroker")>>

\* the model classes that are the type of a field of another model
ModelTypes ==
    {"UpdatableContact", "UpdatableIdentity", "UpdatableDisclosures", "UpdatableTrustedContact",
     "Contact", "Identity", "Disclosures", "Agreement", "TrustedContact"}

Schema(c) ==
    CASE c = "Contact" -> Contact
      [] c = "TrustedContact" -> TrustedContact
      [] c = "GetTradeDocumentsRequest" -> GetTradeDocumentsRequest
      [] c = "UploadDocumentRequest" -> UploadDocumentRequest
      [] c = "UploadW8BenDocumentRequest" -> UploadW8BenDocumentRequest
      [] c = "CreateBankRequest" -> CreateBankRequest
      [] c = "CreateACHTransferRequest" -> CreateACHTransferRequest
      [] c = "CreateBankTransferRequest" -> CreateBankTransferRequest
      [] c = "UpdatableContact" -> UpdatableContact
      [] c = "UpdatableIdentity" -> UpdatableIdentity
      [] c = "UpdatableDisclosures" -> UpdatableDisclosures
      [] c = "UpdatableTrustedContact" -> UpdatableTrustedContact
      [] c = "AccountUpdateRequest" -> AccountUpdateRequest
      [] c = "ListAccountsRequest" -> ListAccountsRequest
      [] c = "GetAccountActivitiesRequest" -> GetAccountActivitiesRequest
      [] c = "ClosePositionRequest" -> ClosePositionRequest
      [] c = "GetPortfolioHistoryRequest" -> GetPortfolioHistoryRequest
      [] c = "CreateACHRelationshipRequest" -> CreateACHRelationshipRequest
      [] c = "CreatePlaidRelationshipRequest" -> CreatePlaidRelationshipRequest
      [] c = "GetTransfersRequest" -> GetTransfersRequest
      [] c = "Identity" -> Identity
      [] c = "Disclosures" -> Disclosures
      [] c = "Agreement" -> Agreement
      [] c = "Account" -> Account
      [] c = "TradeAccount" -> TradeAccount

(***************************************************************************)
(* pydantic's conversion of a non-None value to the declared type.         *)
(***************************************************************************)
RECURSIVE Construct(_, _)
RECURSIVE Coerce(_, _)

\* the outcome r of ty(**dict) as the value of a field of type ty
AsField(ty, r) ==
    IF r.outcome = "ok" THEN Ret(Model(ty, r.obj))
    ELSE IF r.outcome \in Caught \cup {"ValidationError"} THEN Raise("ValueError")
    ELSE Raise(r.outcome)

\* the conversions elems of the elements of a list of type ty
AsList(ty, elems) ==
    IF \A i \in DOMAIN elems : elems[i].exc = "none"
    THEN Ret(List(ty, [i \in DOMAIN elems |-> elems[i].v]))
    ELSE IF \A i \in DOMAIN elems : elems[i].exc \in Caught \cup {"none"}
    THEN Raise("ValueError")
    ELSE Raise(elems[CHOOSE i \in DOMAIN elems : elems[i].exc \notin Caught \cup {"none"}].exc)

Coerce(ty, x) ==
    IF ty = "str" THEN
        (IF x.t \in {"str", "text"} THEN Ret(x) ELSE Raise("TypeError"))
    ELSE IF ty \in EnumTypes THEN
        (IF x.t = ty /\ x.v \in Members(ty) THEN Ret(x) ELSE Raise("TypeError"))
    ELSE IF ty = "Union[date, str]" THEN
        \* date is tried first, then str
        (IF x.t = "date" THEN Ret(x)
         ELSE IF x.t = "text" /\ fromisoformat(x.v).exc = "none" THEN fromisoformat(x.v)
         ELSE IF x.t \in {"str", "text"} THEN Ret(x)
         ELSE Raise("TypeError"))
    ELSE IF ty = "date" THEN
        (IF x.t = "date" THEN Ret(x)
         ELSE IF x.t = "text" THEN fromisoformat(x.v)
         ELSE Raise("TypeError"))
    ELSE IF ty = "Union[UUID, str]" THEN
        \* UUID is tried first, then str
        (IF x.t = "UUID" THEN Ret(x)
         ELSE IF x.t = "text" /\ UUID(x.v).exc = "none" THEN UUID(x.v)
         ELSE IF x.t \in {"str", "text"} THEN Ret(x)
         ELSE Raise("TypeError"))
    ELSE IF ty = "UUID" THEN
        \* a UUID is taken as it is, a str is converted with UUID(str)
        (IF x.t = "UUID" THEN Ret(x)
         ELSE IF x.t = "text" THEN UUID(x.v)
         ELSE Raise("TypeError"))
    ELSE IF ty \in EnumListTypes THEN
        (IF x.t = ty /\ \A i \in 1..Len(x.v) : Coerce(ElementType(ty), x.v[i]).exc = "none"
         THEN Ret(x)
         ELSE Raise("TypeError"))
    ELSE IF ty \in {"List[Agreement]", "List[AccountDocument]"} THEN
        (IF x.t = ty
         THEN AsList(ty, [i \in 1..Len(x.v) |-> Coerce(ElementType(ty), x.v[i])])
         ELSE Raise("TypeError"))
    ELSE IF ty \in ModelTypes THEN
        \* an instance is taken as it is, a dict is validated as ty(**dict)
        (IF x.t = ty THEN Ret(x)
         ELSE IF x.t = "dict" THEN AsField(ty, Construct(ty, x.v))
         ELSE Raise("TypeError"))
    ELSE
        \* List[str], W8BenDocument, bool, int, datetime: an instance of the type
        (IF x.t = ty THEN Ret(x) ELSE Raise("TypeError"))

(***************************************************************************)
(* The @validator functions.  Each gets the field's value v and `values`,  *)
(* the dict of the fields validated before it.                             *)
(***************************************************************************)
Has(values, k) == k \in DOMAIN values
IsStr(x) == x.t \in {"str", "text"}

\* Contact.usa_state_has_value
usa_state_has_value(v, values) ==
    IF Has(values, "country") /\ PyEq(values["country"], Str("USA")) /\ IsNone(v)
    THEN Raise("ValueError")
    ELSE Ret(v)

\* _CreateTransferRequest.amount_must_be_positive
amount_must_be_positive(value) ==
    LET f == float(value.v)
    IN  IF f.exc # "none" THEN Raise(f.exc)
        ELSE IF FloatLeZero(f.v) THEN Raise("ValueError")
        ELSE Ret(value)

\* mutant: any transfer type passes
transfer_type_must_be_ach_any(value) == Ret(value)

\* CreateACHTransferRequest.transfer_type_must_be_ach
transfer_type_must_be_ach(value) ==
    IF ~PyEq(value, Enum("TransferType", "ACH")) THEN Raise("ValueError") ELSE Ret(value)

\* CreateBankTransferRequest.transfer_type_must_be_wire
transfer_type_must_be_wire(value) ==
    IF ~PyEq(value, Enum("TransferType", "WIRE")) THEN Raise("ValueError") ELSE Ret(value)

\* the names the module `datetime` has (common/models/requests.py imports the
\* module itself as `datetime`, and `date` from it)
datetime_module == {"date", "datetime", "time", "timedelta", "timezone", "tzinfo", "MINYEAR", "MAXYEAR"}

\* GetPortfolioHistoryRequest.parse_date_end, a pre=True validator:
\* datetime.strptime(value, "%Y-%m-%d").date()
parse_date_end(value) ==
    IF "strptime" \notin datetime_module THEN Raise("AttributeError")
    ELSE IF ~IsStr(value) THEN Raise("TypeError")
    ELSE fromisoformat(value.v)

\* the @validator(pre=True) functions of field n of class c, applied to v
FieldPreValidators(c, n, v) ==
    IF c = "GetPortfolioHistoryRequest" /\ n = "date_end" THEN parse_date_end(v)
    ELSE Ret(v)

\* the @validator functions of field n of class c, applied to v
FieldValidators(c, n, v, values) ==
    \* UpdatableContact inherits the validator of Contact
    IF c \in {"Contact", "UpdatableContact"} /\ n = "state" THEN usa_state_has_value(v, values)
    ELSE IF c \in {"CreateACHTransferRequest", "CreateBankTransferRequest"} /\ n = "amount"
        THEN amount_must_be_positive(v)
    ELSE IF c = "CreateACHTransferRequest" /\ n = "transfer_type" THEN transfer_type_must_be_ach(v)
    ELSE IF c = "CreateBankTransferRequest" /\ n = "transfer_type" THEN transfer_type_must_be_wire(v)
    ELSE Ret(v)

(***************************************************************************)
(* The @root_validator functions.  `values` holds the fields that passed   *)
(* their own validation; a field that failed it is not a key of `values`,  *)
(* and values[k] for such a k raises KeyError.                             *)
(***************************************************************************)
\* mutant: street_address does not count as a method of contact
TrustedContact_root_validator_no_street(values) ==
    LET has_phone_number == Has(values, "phone_number") /\ ~IsNone(values["phone_number"])
        has_email_address == Has(values, "email_address") /\ ~IsNone(values["email_address"])
    IN  IF has_phone_number \/ has_email_address
        THEN Ret(values)
        ELSE Raise("ValueError")

TrustedContact_root_validator(values) ==
    LET has_phone_number == Has(values, "phone_number") /\ ~IsNone(values["phone_number"])
        has_street_address == Has(values, "street_address") /\ ~IsNone(values["street_address"])
        has_email_address == Has(values, "email_address") /\ ~IsNone(values["email_address"])
    IN  IF has_phone_number \/ has_street_address \/ has_email_address
        THEN Ret(values)
        ELSE Raise("ValueError")

\* mutant: start >= end is refused
GetTradeDocumentsRequest_root_validator_ge(values) ==
    IF /\ Has(values, "start")
       /\ ~IsNone(values["start"])
       /\ Has(values, "end")
       /\ ~IsNone(values["end"])
    THEN IF values["start"].t = "date" /\ values["end"].t = "date"
         THEN (IF DateGt(values["start"], values["end"]) \/ PyEq(values["start"], values["end"])
               THEN Raise("ValueError")
               ELSE Ret(values))
         ELSE Raise("TypeError")
    ELSE Ret(values)

GetTradeDocumentsRequest_root_validator(values) ==
    IF /\ Has(values, "start")
       /\ ~IsNone(values["start"])
       /\ Has(values, "end")
       /\ ~IsNone(values["end"])
    THEN IF values["start"].t = "date" /\ values["end"].t = "date"
         THEN (IF DateGt(values["start"], values["end"]) THEN Raise("ValueError") ELSE Ret(values))
         \* date > str is not defined
         ELSE Raise("TypeError")
    ELSE Ret(values)

\* mutant: the sub type is not looked at
UploadDocumentRequest_root_validator_type_only(values) ==
    IF ~Has(values, "document_type") THEN Raise("KeyError")
    ELSE IF PyEq(values["document_type"], Enum("DocumentType", "W8BEN")) THEN Raise("ValueError")
    ELSE Ret(values)

UploadDocumentRequest_root_validator(values) ==
    IF ~Has(values, "document_type") THEN Raise("KeyError")
    ELSE IF PyEq(values["document_type"], Enum("DocumentType", "W8BEN")) THEN Raise("ValueError")
    ELSE IF ~Has(values, "document_sub_type") THEN Raise("KeyError")
    ELSE IF PyEq(values["document_sub_type"], Enum("UploadDocumentSubType", "FORM_W8_BEN"))
        THEN Raise("ValueError")
    ELSE Ret(values)

\* mutant: content and content_data may both be set
UploadW8BenDocumentRequest_root_validator_both(values) ==
    IF ~Has(values, "content") \/ ~Has(values, "content_data") THEN Raise("KeyError")
    ELSE LET content_is_none == IsNone(values["content"])
             content_data_is_none == IsNone(values["content_data"])
         IN  IF content_is_none /\ content_data_is_none THEN Raise("ValueError")
             ELSE IF ~Has(values, "document_type") THEN Raise("KeyError")
             ELSE IF ~PyEq(values["document_type"], Enum("DocumentType", "W8BEN"))
                 THEN Raise("ValueError")
             ELSE IF ~Has(values, "document_sub_type") THEN Raise("KeyError")
             ELSE IF ~PyEq(values["document_sub_type"], Enum("UploadDocumentSubType", "FORM_W8_BEN"))
                 THEN Raise("ValueError")
             ELSE IF ~content_data_is_none /\ ~Has(values, "mime_type") THEN Raise("KeyError")
             ELSE IF /\ ~content_data_is_none
                     /\ ~PyEq(values["mime_type"], Enum("UploadDocumentMimeType", "JSON"))
                 THEN Raise("ValueError")
             ELSE Ret(values)

\* mutant: the mime type is not checked against content_data
UploadW8BenDocumentRequest_root_validator_any_mime(values) ==
    IF ~Has(values, "content") \/ ~Has(values, "content_data") THEN Raise("KeyError")
    ELSE LET content_is_none == IsNone(values["content"])
             content_data_is_none == IsNone(values["content_data"])
         IN  IF content_is_none /\ content_data_is_none THEN Raise("ValueError")
             ELSE IF ~content_is_none /\ ~content_data_is_none THEN Raise("ValueError")
             ELSE IF ~Has(values, "document_type") THEN Raise("KeyError")
             ELSE IF ~PyEq(values["document_type"], Enum("DocumentType", "W8BEN"))
                 THEN Raise("ValueError")
             ELSE IF ~Has(values, "document_sub_type") THEN Raise("KeyError")
             ELSE IF ~PyEq(values["document_sub_type"], Enum("UploadDocumentSubType", "FORM_W8_BEN"))
                 THEN Raise("ValueError")
             ELSE Ret(values)

UploadW8BenDocumentRequest_root_validator(values) ==
    IF ~Has(values, "content") \/ ~Has(values, "content_data") THEN Raise("KeyError")
    ELSE LET content_is_none == IsNone(values["content"])
             content_data_is_none == IsNone(values["content_data"])
         IN  IF content_is_none /\ content_data_is_none THEN Raise("ValueError")
             ELSE IF ~content_is_none /\ ~content_data_is_none THEN Raise("ValueError")
             ELSE IF ~Has(values, "document_type") THEN Raise("KeyError")
             ELSE IF ~PyEq(values["document_type"], Enum("DocumentType", "W8BEN"))
                 THEN Raise("ValueError")
             ELSE IF ~Has(values, "document_sub_type") THEN Raise("KeyError")
             ELSE IF ~PyEq(values["document_sub_type"], Enum("UploadDocumentSubType", "FORM_W8_BEN"))
                 THEN Raise("ValueError")
             ELSE IF ~content_data_is_none /\ ~Has(values, "mime_type") THEN Raise("KeyError")
             ELSE IF /\ ~content_data_is_none
                     /\ ~PyEq(values["mime_type"], Enum("UploadDocumentMimeType", "JSON"))
                 THEN Raise("ValueError")
             ELSE Ret(values)

international_parameters == {"country", "state_province", "postal_code", "city", "street_address"}

\* mutant: a BIC bank needs only one of the international fields
CreateBankRequest_root_validator_bic_any(values) ==
    IF ~Has(values, "bank_code_type") THEN Ret(values)
    ELSE LET bank_code_type == values["bank_code_type"]
         IN  IF PyEq(bank_code_type, Enum("IdentifierType", "ABA")) THEN
                 (IF \E p \in international_parameters : Has(values, p) /\ ~IsNone(values[p])
                  THEN Raise("ValueError")
                  ELSE Ret(values))
             ELSE IF PyEq(bank_code_type, Enum("IdentifierType", "BIC")) THEN
                 (IF \A p \in international_parameters : ~Has(values, p) \/ IsNone(values[p])
                  THEN Raise("ValueError")
                  ELSE Ret(values))
             ELSE Ret(values)

\* mutant: an ABA bank is refused only for a country
CreateBankRequest_root_validator_aba_country(values) ==
    IF ~Has(values, "bank_code_type") THEN Ret(values)
    ELSE LET bank_code_type == values["bank_code_type"]
         IN  IF PyEq(bank_code_type, Enum("IdentifierType", "ABA")) THEN
                 (IF Has(values, "country") /\ ~IsNone(values["country"])
                  THEN Raise("ValueError")
                  ELSE Ret(values))
             ELSE IF PyEq(bank_code_type, Enum("IdentifierType", "BIC")) THEN
                 (IF \E p \in international_parameters : ~Has(values, p) \/ IsNone(values[p])
                  THEN Raise("ValueError")
                  ELSE Ret(values))
             ELSE Ret(values)

CreateBankRequest_root_validator(values) ==
    IF ~Has(values, "bank_code_type") THEN Ret(values)
    ELSE LET bank_code_type == values["bank_code_type"]
         IN  IF PyEq(bank_code_type, Enum("IdentifierType", "ABA")) THEN
                 (IF \E p \in international_parameters : Has(values, p) /\ ~IsNone(values[p])
                  THEN Raise("ValueError")
                  ELSE Ret(values))
             ELSE IF PyEq(bank_code_type, Enum("IdentifierType", "BIC")) THEN
                 (IF \E p \in international_parameters : ~Has(values, p) \/ IsNone(values[p])
                  THEN Raise("ValueError")
                  ELSE Ret(values))
             ELSE Ret(values)

\* mutant: the parent's check still applies
UpdatableTrustedContact_root_validator_parent(values) ==
    TrustedContact_root_validator(values)

\* overrides TrustedContact.root_validator, which has the same name
UpdatableTrustedContact_root_validator(values) == Ret(values)

\* mutant: date and until may be set together
GetAccountActivitiesRequest_root_validator_no_until(values) ==
    LET date_set == Has(values, "date") /\ ~IsNone(values["date"])
        after_set == Has(values, "after") /\ ~IsNone(values["after"])
    IN  IF date_set /\ after_set THEN Raise("ValueError")
        ELSE Ret(values)

GetAccountActivitiesRequest_root_validator(values) ==
    LET date_set == Has(values, "date") /\ ~IsNone(values["date"])
        after_set == Has(values, "after") /\ ~IsNone(values["after"])
        until_set == Has(values, "until") /\ ~IsNone(values["until"])
    IN  IF date_set /\ after_set THEN Raise("ValueError")
        ELSE IF date_set /\ until_set THEN Raise("ValueError")
        ELSE Ret(values)

RootValidator(c, values) ==
    CASE c = "TrustedContact" -> TrustedContact_root_validator(values)
      [] c = "GetTradeDocumentsRequest" -> GetTradeDocumentsRequest_root_validator(values)
      [] c = "UploadDocumentRequest" -> UploadDocumentRequest_root_validator(values)
      [] c = "UploadW8BenDocumentRequest" -> UploadW8BenDocumentRequest_root_validator(values)
      [] c = "CreateBankRequest" -> CreateBankRequest_root_validator(values)
      [] c = "UpdatableTrustedContact" -> UpdatableTrustedContact_root_validator(values)
      [] c = "GetAccountActivitiesRequest" -> GetAccountActivitiesRequest_root_validator(values)
      [] OTHER -> Ret(values)

(***************************************************************************)
(* The __init__ overrides: what they do to the keyword arguments before    *)
(* handing them to pydantic.                                               *)
(***************************************************************************)
\* data with data[k] replaced by the value r returns, or the exception r raises
Converted(data, k, r) == IF r.exc = "none" THEN Ret(Put(data, k, r.v)) ELSE r

\* data[k] = date.fromisoformat(data[k]) when data[k] is a str
ConvertDate(data, k) ==
    IF Has(data, k) /\ IsStr(data[k]) THEN Converted(data, k, fromisoformat(data[k].v))
    ELSE Ret(data)

GetTradeDocumentsRequest_init(data) ==
    IF ConvertDate(data, "start").exc # "none" THEN ConvertDate(data, "start")
    ELSE ConvertDate(ConvertDate(data, "start").v, "end")

\* mutant: document_type and document_sub_type are set only when not passed
UploadW8BenDocumentRequest_init_setdefault(data) ==
    LET d1 == IF Has(data, "document_type") THEN data
              ELSE Put(data, "document_type", Enum("DocumentType", "W8BEN"))
        d2 == IF Has(d1, "document_sub_type") THEN d1
              ELSE Put(d1, "document_sub_type", Enum("UploadDocumentSubType", "FORM_W8_BEN"))
    IN  IF /\ ~Has(d2, "mime_type")
           /\ Has(d2, "content_data")
           /\ ~IsNone(d2["content_data"])
        THEN Ret(Put(d2, "mime_type", Enum("UploadDocumentMimeType", "JSON")))
        ELSE Ret(d2)

UploadW8BenDocumentRequest_init(data) ==
    LET d1 == Put(data, "document_type", Enum("DocumentType", "W8BEN"))
        d2 == Put(d1, "document_sub_type", Enum("UploadDocumentSubType", "FORM_W8_BEN"))
    IN  IF /\ ~Has(d2, "mime_type")
           /\ Has(d2, "content_data")
           /\ ~IsNone(d2["content_data"])
        THEN Ret(Put(d2, "mime_type", Enum("UploadDocumentMimeType", "JSON")))
        ELSE Ret(d2)

\* mutant: only a missing sort is defaulted
ListAccountsRequest_init_missing_only(kwargs_) ==
    IF ~Has(kwargs_, "sort")
    THEN Ret(Put(kwargs_, "sort", Enum("Sort", "DESC")))
    ELSE Ret(kwargs_)

ListAccountsRequest_init(kwargs_) ==
    IF ~Has(kwargs_, "sort") \/ IsNone(kwargs_["sort"])
    THEN Ret(Put(kwargs_, "sort", Enum("Sort", "DESC")))
    ELSE Ret(kwargs_)

GetAccountActivitiesRequest_init(kwargs_) ==
    IF Has(kwargs_, "account_id") /\ IsStr(kwargs_["account_id"])
    THEN Converted(kwargs_, "account_id", UUID(kwargs_["account_id"].v))
    ELSE Ret(kwargs_)

\* pydantic.parse_obj_as(type_, obj): obj validated as a required value of
\* type_, a ValidationError when it is not one
parse_obj_as(type_, obj_) ==
    IF IsNone(obj_) THEN Raise("ValidationError")
    ELSE LET r == Coerce(type_, obj_)
         IN  IF r.exc \in Caught THEN Raise("ValidationError") ELSE r

\* the keyword arguments Account.__init__ hands to pydantic, in the order it
\* evaluates them, and how each is computed from the response
Account_arguments ==
    <<[name |-> "id", how |-> "UUID", type |-> ""],
      [name |-> "account_number", how |-> "index", type |-> ""],
      [name |-> "status", how |-> "index", type |-> ""],
      [name |-> "crypto_status", how |-> "if_in", type |-> ""],
      [name |-> "currency", how |-> "index", type |-> ""],
      [name |-> "last_equity", how |-> "index", type |-> ""],
      [name |-> "created_at", how |-> "index", type |-> ""],
      [name |-> "contact", how |-> "parse_obj_as", type |-> "Contact"],
      [name |-> "identity", how |-> "parse_obj_as", type |-> "Identity"],
      [name |-> "disclosures", how |-> "parse_obj_as", type |-> "Disclosures"],
      [name |-> "agreements", how |-> "parse_obj_as", type |-> "List[Agreement]"],
      [name |-> "documents", how |-> "parse_obj_as", type |-> "List[AccountDocument]"],
      [name |-> "trusted_contact", how |-> "parse_obj_as", type |-> "TrustedContact"]>>

\* one argument: UUID(response[k]), response[k], response[k] if k in
\* response else None, parse_obj_as(T, response[k]) if k in response else None.
\* UUID(x) for an x that is not a str calls x.replace, which a UUID has not
Account_argument(a, response) ==
    CASE a.how = "UUID" ->
            (IF ~Has(response, a.name) THEN Raise("KeyError")
             ELSE IF IsStr(response[a.name]) THEN UUID(response[a.name].v)
             ELSE IF IsNone(response[a.name]) THEN Raise("TypeError")
             ELSE Raise("AttributeError"))
      [] a.how = "index" ->
            (IF Has(response, a.name) THEN Ret(response[a.name]) ELSE Raise("KeyError"))
      [] a.how = "if_in" ->
            Ret(IF Has(response, a.name) THEN response[a.name] ELSE None)
      [] a.how = "parse_obj_as" ->
            (IF Has(response, a.name) THEN parse_obj_as(a.type, response[a.name]) ELSE Ret(None))

\* the arguments args, computed in order: the first exception raised, or
\* the keyword arguments
Account_init_arguments(args) ==
    IF \A i \in DOMAIN args : args[i].exc = "none"
    THEN Ret([n \in {Account_arguments[i].name : i \in DOMAIN args} |->
                 args[CHOOSE i \in DOMAIN args : Account_arguments[i].name = n].v])
    ELSE args[CHOOSE i \in DOMAIN args :
                 /\ args[i].exc # "none"
                 /\ \A j \in 1..(i - 1) : args[j].exc = "none"]

Account_init(response) ==
    Account_init_arguments(
        [i \in 1..Len(Account_arguments) |-> Account_argument(Account_arguments[i], response)])

TradeAccount_init(data) ==
    IF Has(data, "id") /\ data["id"].t \in {"str", "text"}
    THEN Converted(data, "id", UUID(data["id"].v))
    ELSE Ret(data)

PreInit(c, data) ==
    CASE c = "GetTradeDocumentsRequest" -> GetTradeDocumentsRequest_init(data)
      [] c = "UploadW8BenDocumentRequest" -> UploadW8BenDocumentRequest_init(data)
      [] c = "ListAccountsRequest" -> ListAccountsRequest_init(data)
      [] c = "GetAccountActivitiesRequest" -> GetAccountActivitiesRequest_init(data)
      [] c = "Account" -> Account_init(data)
      [] c = "TradeAccount" -> TradeAccount_init(data)
      [] OTHER -> Ret(data)

(***************************************************************************)
(* pydantic's validation of one model (BaseModel.__init__).                *)
(***************************************************************************)
\* the @validator functions on the outcome r of the type conversion
ValidateConverted(c, fld, r, values) ==
    IF r.exc # "none" THEN r ELSE FieldValidators(c, fld.name, r.v, values)

\* None check, type conversion and @validator functions on the outcome pre
\* of the pre=True validators
ValidatePre(c, fld, pre, values) ==
    IF pre.exc # "none" THEN pre
    ELSE IF IsNone(pre.v) THEN
        (IF fld.allow_none THEN FieldValidators(c, fld.name, pre.v, values)
         ELSE Raise("TypeError"))
    ELSE ValidateConverted(c, fld, Coerce(fld.type, pre.v), values)

\* one field that was passed: pre=True validators, None check, type
\* conversion, @validator functions
ValidateField(c, fld, x, values) ==
    ValidatePre(c, fld, FieldPreValidators(c, fld.name, x), values)

\* acc with the outcome r of the validation of field n: its value, an error
\* of the field, or an exception that pydantic does not catch
Accumulate(acc, n, r) ==
    IF r.exc = "none" THEN [acc EXCEPT !.values = Put(@, n, r.v)]
    ELSE IF r.exc \in Caught THEN [acc EXCEPT !.errors = @ \cup {n}]
    ELSE [acc EXCEPT !.exc = r.exc]

\* acc with field fld: a missing required field is an error, a default is
\* taken as it is (the validators do not run on it)
ValidateNext(c, data, fld, acc) ==
    IF ~Has(data, fld.name) THEN
        (IF fld.required THEN [acc EXCEPT !.errors = @ \cup {fld.name}]
         ELSE [acc EXCEPT !.values = Put(@, fld.name, fld.default)])
    ELSE Accumulate(acc, fld.name, ValidateField(c, fld, data[fld.name], acc.values))

\* the fields from the i-th on, in declaration order; acc is the state of the
\* validation so far: the values accepted, the fields in error, and an
\* exception that pydantic does not catch, which ends the validation
RECURSIVE ValidateFields(_, _, _, _)
ValidateFields(c, data, i, acc) ==
    IF i > Len(Schema(c)) \/ acc.exc # "none" THEN acc
    ELSE ValidateFields(c, data, i + 1, ValidateNext(c, data, Schema(c)[i], acc))

Failed(e) == [outcome |-> e, obj |-> EmptyDict]

\* the outcome of the root validator, rv, after the field validation fv
AfterRootValidator(fv, rv) ==
    IF rv.exc # "none" /\ rv.exc \notin Caught THEN Failed(rv.exc)
    ELSE IF rv.exc \in Caught \/ fv.errors # {} THEN Failed("ValidationError")
    ELSE [outcome |-> "ok", obj |-> rv.v]

\* the root validator after the field validation fv
AfterFields(c, fv) ==
    IF fv.exc # "none" THEN Failed(fv.exc)
    ELSE AfterRootValidator(fv, RootValidator(c, fv.values))

\* pydantic's validation after __init__ has prepared the arguments, pre
AfterPreInit(c, pre) ==
    IF pre.exc # "none" THEN Failed(pre.exc)
    ELSE AfterFields(c, ValidateFields(c, pre.v, 1,
                                       [values |-> EmptyDict, errors |-> {}, exc |-> "none"]))

\* c(**data): the outcome ("ok" or the exception raised) and the fields of
\* the object constructed
Construct(c, data) == AfterPreInit(c, PreInit(c, data))

(***************************************************************************)
(* NonEmptyRequest.to_request_fields.                                      *)
(***************************************************************************)
ListTypes == EnumListTypes \cup {"List[str]"}

\* bool(x)
Truthy(x) ==
    CASE x.t = "NoneType" -> FALSE
      [] x.t = "str" -> x.v # ""
      [] x.t = "text" -> Len(x.v) > 0
      [] x.t = "bool" -> x.v
      [] x.t = "int" -> x.v # 0
      [] x.t = "dict" -> DOMAIN x.v # {}
      [] x.t \in ListTypes -> Len(x.v) > 0
      [] OTHER -> TRUE

\* len(str(x)) > 0: str of a str is the str itself, of anything else its
\* printed form, which is never empty
StrNonEmpty(x) ==
    CASE x.t = "str" -> x.v # ""
      [] x.t = "text" -> Len(x.v) > 0
      [] OTHER -> TRUE

\* mutant: None is left out at the top level only
RECURSIVE dict_shallow(_, _)
dict_shallow(d, exclude_none) ==
    [k \in {f \in DOMAIN d : ~(exclude_none /\ IsNone(d[f]))} |->
        IF d[k].t \in ModelTypes THEN Dict(dict_shallow(d[k].v, FALSE)) ELSE d[k]]

\* BaseModel.dict(exclude_none=...) on the field values d: nested models
\* become dicts, and None is left out at every depth
RECURSIVE dict(_, _)
dict(d, exclude_none) ==
    [k \in {f \in DOMAIN d : ~(exclude_none /\ IsNone(d[f]))} |->
        IF d[k].t \in ModelTypes THEN Dict(dict(d[k].v, exclude_none)) ELSE d[k]]

\* mutant: self.dict() without exclude_none
to_request_fields_with_none(self) ==
    LET d == dict(self, FALSE)
    IN  [key \in {k \in DOMAIN d : Truthy(d[k]) /\ StrNonEmpty(d[k])} |-> d[key]]

\* NonEmptyRequest.to_request_fields on the field values `self`
to_request_fields(self) ==
    LET d == dict(self, TRUE)
    IN  [key \in {k \in DOMAIN d : Truthy(d[k]) /\ StrNonEmpty(d[k])} |-> d[key]]

\* the classes that derive from NonEmptyRequest
NonEmptyRequests ==
    {"GetTradeDocumentsRequest", "UploadDocumentRequest", "UploadW8BenDocumentRequest",
     "CreateBankRequest", "CreateACHTransferRequest", "CreateBankTransferRequest",
     "AccountUpdateRequest", "GetAccountActivitiesRequest", "ClosePositionRequest",
     "GetPortfolioHistoryRequest", "CreateACHRelationshipRequest",
     "CreatePlaidRelationshipRequest", "GetTransfersRequest"}

(***************************************************************************)
(* Assignment to a field of a constructed record.  ValidateBaseModel, the  *)
(* base of every model, is defined in common/models/models.py; a record is *)
(* immutable after validation, so the assignment is refused and leaves the *)
(* record as it was.                                                       *)
(***************************************************************************)
setattr(self, name, value) == [exc |-> "TypeError", self |-> self]

(***************************************************************************)
(* The calls the model makes.                                              *)
(***************************************************************************)
Years == {2023, 2024}
Months == {1, 2}
Dates == {Date(y, m, d) : y \in Years, m \in Months, d \in 1..MaxDay}
DateTexts == {Text(isoformat(d)) : d \in Dates}
\* not a date: month 13
BadDateText == Text(<<"2", "0", "2", "4", "-", "1", "3", "-", "0", "1">>)

AmountAlphabet == {"-", ".", "0", "1", "n", "a"}
Amounts == {Text(s) : s \in UNION {[1..n -> AmountAlphabet] : n \in 0..MaxAmountLen}}

E(ty) == {Enum(ty, m) : m \in Members(ty)}

ContactKwargs ==
    {Passed(r) : r \in
        [email_address : {Missing, None, Str("a@example.com")},
         phone_number : {Str("+15551234567")},
         street_address : {StrList(<<"1 Main St">>)},
         city : {Missing, Str("San Mateo")},
         state : {Missing, None, Str("CA"), Str("")},
         country : {Missing, None, Str("USA"), Str("CAN")}]}

TrustedContactKwargs ==
    {Passed(r) : r \in
        [given_name : {Missing, Str("Jane")},
         family_name : {Str("Doe"), None},
         email_address : {Missing, None, Str("jane@example.com"), Str("")},
         phone_number : {Missing, None, Str("+15557654321")},
         street_address : {Missing, None, Str("2 Side St")}]}

GetTradeDocumentsRequestKwargs ==
    {Passed(r) : r \in
        [start : {Missing, None, BadDateText} \cup Dates \cup DateTexts,
         end : {Missing, None, BadDateText} \cup Dates \cup DateTexts]}

UploadDocumentRequestKwargs ==
    {Passed(r) : r \in
        [document_type : {Missing} \cup E("DocumentType"),
         document_sub_type : {Missing, None, Bogus} \cup E("UploadDocumentSubType"),
         content : {Missing, Str("aGVsbG8=")},
         mime_type : {Missing, Enum("UploadDocumentMimeType", "PDF")}]}

UploadW8BenDocumentRequestKwargs ==
    {Passed(r) : r \in
        [document_type : {Missing} \cup E("DocumentType"),
         document_sub_type : {Missing} \cup E("UploadDocumentSubType"),
         content : {Missing, None, Str("aGVsbG8=")},
         content_data : {Missing, None, W8BenDoc("w8ben")},
         mime_type : {Missing, None, Bogus} \cup E("UploadDocumentMimeType")]}

CreateBankRequestKwargs ==
    {Passed(r) : r \in
        [name : {Missing, Str("Bank")},
         bank_code_type : {Missing, Bogus} \cup E("IdentifierType"),
         bank_code : {Str("123456789")},
         account_number : {Str("000123")},
         country : {Missing, None, Str("DE")},
         state_province : {Missing, None, Str("BE")},
         postal_code : {Missing, None, Str("10115")},
         city : {Missing, None, Str("Berlin")},
         street_address : {Missing, None, Str("")}]}

CreateACHTransferRequestKwargs ==
    {Passed(r) : r \in
        [amount : Amounts,
         direction : {Missing, Enum("TransferDirection", "INCOMING")},
         timing : {Enum("TransferTiming", "IMMEDIATE")},
         relationship_id : {Uuid("r1")},
         transfer_type : {Missing} \cup E("TransferType")]}

CreateBankTransferRequestKwargs ==
    {Passed(r) : r \in
        [amount : Amounts,
         direction : {Missing, Enum("TransferDirection", "OUTGOING")},
         timing : {Enum("TransferTiming", "IMMEDIATE")},
         bank_id : {Uuid("b1")},
         transfer_type : {Missing} \cup E("TransferType")]}

Rep(ch, n) == [i \in 1..n |-> ch]
\* 11111111-aaaa-4bbb-8ccc-000000000000
GoodUuidText ==
    Text(Rep("1", 8) \o <<"-">> \o Rep("a", 4) \o <<"-", "4">> \o Rep("b", 3) \o <<"-", "8">>
         \o Rep("c", 3) \o <<"-">> \o Rep("0", 12))
BadUuidText == Text(<<"n", "o", "t", "-", "a", "-", "u", "u", "i", "d">>)

UpdatableContactKwargs ==
    {Passed(r) : r \in
        [email_address : {Missing, Str("b@example.com")},
         city : {Missing, None, Str("Paris")},
         state : {Missing, None, Str("CA")},
         country : {Missing, Str("USA")}]}

UpdatableIdentityKwargs ==
    {Passed(r) : r \in
        [given_name : {Missing, Str("Ann")},
         permanent_resident : {Missing, None, PyBool(TRUE), PyBool(FALSE)},
         funding_source : {Missing, List("List[FundingSource]", <<>>),
                           List("List[FundingSource]", <<Enum("FundingSource", "SAVINGS")>>)}]}

UpdatableDisclosuresKwargs ==
    {Passed(r) : r \in
        [is_control_person : {Missing, None, PyBool(TRUE), PyBool(FALSE)},
         employer_name : {Missing, Str("ACME"), Str("")}]}

UpdatableTrustedContactKwargs ==
    {Passed(r) : r \in
        [given_name : {Missing, Str("new value")},
         family_name : {Missing, None, Str("Doe")},
         email_address : {Missing, Str("jane@example.com")},
         phone_number : {Missing, Str("+15557654321")}]}

\* a nested record is passed as a dict of at most MaxNested fields, or not at all
NestedArgs(S) ==
    {Missing, None} \cup {Dict(kw) : kw \in {k \in S : Cardinality(DOMAIN k) <= MaxNested}}

\* the instances of class c, all of whose fields are optional, that the calls over S
\* construct: every declared field, None where it was not passed
Instances(c, S) ==
    {Model(c, [n \in {Schema(c)[i].name : i \in 1..Len(Schema(c))} |->
                  IF Has(kw, n) THEN kw[n] ELSE None]) :
        kw \in {k \in S : Cardinality(DOMAIN k) = 1}}

AccountUpdateRequestKwargs ==
    {Passed(r) : r \in
        [contact : NestedArgs(UpdatableContactKwargs),
         identity : NestedArgs(UpdatableIdentityKwargs),
         disclosures : NestedArgs(UpdatableDisclosuresKwargs),
         trusted_contact : NestedArgs(UpdatableTrustedContactKwargs)
                           \cup Instances("UpdatableTrustedContact", UpdatableTrustedContactKwargs)]}

ListAccountsRequestKwargs ==
    {Passed(r) : r \in
        [query : {Missing, Str("doe")},
         status : {Missing, List("List[AccountStatus]", <<Enum("AccountStatus", "ACTIVE")>>)},
         sort : {Missing, None, Bogus} \cup E("Sort")]}

GetAccountActivitiesRequestKwargs ==
    {Passed(r) : r \in
        [account_id : {Missing, GoodUuidText, BadUuidText, UUID(GoodUuidText.v).v},
         activity_types : {Missing, List("List[ActivityType]", <<>>)},
         date : {Missing, None, Datetime(2024, 1, 1)},
         until : {Missing, None, Datetime(2024, 1, 2)},
         after : {Missing, None, Datetime(2023, 1, 2)},
         page_size : {Missing, PyInt(0), PyInt(4)}]}

ClosePositionRequestKwargs ==
    {Passed(r) : r \in
        [qty : {Missing, Str("1"), Str("")},
         percentage : {Missing, Str("50")}]}

GetPortfolioHistoryRequestKwargs ==
    {Passed(r) : r \in
        [period : {Missing, Str("1M"), Str("")},
         date_end : {Missing, None, BadDateText} \cup Dates \cup DateTexts,
         extended_hours : {Missing, PyBool(TRUE), PyBool(FALSE)}]}

CreateACHRelationshipRequestKwargs ==
    {Passed(r) : r \in
        [account_owner_name : {Str("Ann Doe")},
         bank_account_type : {Missing} \cup E("BankAccountType"),
         bank_account_number : {Str("123456789abc")},
         bank_routing_number : {Str("121000358")},
         nickname : {Missing, None, Str(""), Str("main")}]}

CreatePlaidRelationshipRequestKwargs ==
    {Passed(r) : r \in [processor_token : {Missing, Str("processor-token"), Str("")}]}

GetTransfersRequestKwargs ==
    {Passed(r) : r \in
        [direction : {Missing} \cup E("TransferDirection"),
         limit : {Missing, None, PyInt(0), PyInt(10)},
         offset : {Missing, PyInt(0), PyInt(5)}]}

DisclosuresKwargs ==
    {Passed(r) : r \in
        [is_control_person : {Missing, None, PyBool(TRUE), PyBool(FALSE)},
         is_affiliated_exchange_or_finra : {PyBool(FALSE)},
         is_politically_exposed : {Missing, PyBool(FALSE)},
         immediate_family_exposed : {PyBool(TRUE)},
         employment_status : {Missing, None, Bogus} \cup E("EmploymentStatus"),
         employer_name : {Missing, Str("ACME"), Str("")}]}

\* a response: the sub-records are a few of the calls of each record, as dicts
AccountKwargs ==
    {Passed(r) : r \in
        [id : {Missing, GoodUuidText, BadUuidText, UUID(GoodUuidText.v).v},
         account_number : {Str("A1")},
         status : {Enum("AccountStatus", "ACTIVE")},
         currency : {Str("USD")},
         last_equity : {Str("0")},
         created_at : {Str("2024-01-01T00:00:00Z")},
         contact : {Missing, None} \cup
            {Dict(k) : k \in {kw \in ContactKwargs :
                /\ ~Has(kw, "state") /\ Has(kw, "city")
                /\ Has(kw, "country") /\ ~IsNone(kw["country"])
                /\ Has(kw, "email_address") => ~IsNone(kw["email_address"])}},
         identity : {Missing} \cup
            {Dict(Passed(i)) : i \in
                [given_name : {Missing, Str("Ann")},
                 family_name : {Str("Doe")},
                 date_of_birth : {Str("1990-01-01")},
                 country_of_tax_residence : {Str("USA")}]},
         disclosures : {Missing} \cup
            {Dict(k) : k \in {kw \in DisclosuresKwargs :
                /\ Has(kw, "is_control_person") => kw["is_control_person"] = PyBool(FALSE)
                /\ Has(kw, "is_politically_exposed")
                /\ ~Has(kw, "employment_status") /\ ~Has(kw, "employer_name")}},
         agreements : {Missing} \cup
            {List("List[Agreement]", l) : l \in
                {<<>>,
                 <<Dict([agreement |-> Enum("AgreementType", "MARGIN"),
                         signed_at |-> Str("2024-01-01"), ip_address |-> Str("127.0.0.1")])>>,
                 <<Dict([agreement |-> Enum("AgreementType", "MARGIN"),
                         signed_at |-> Str("2024-01-01")])>>}},
         documents : {Missing, List("List[AccountDocument]", <<>>)},
         trusted_contact : {Missing} \cup
            {Dict(k) : k \in {kw \in TrustedContactKwargs :
                /\ Has(kw, "given_name") /\ ~IsNone(kw["family_name"])
                /\ ~Has(kw, "street_address") /\ ~Has(kw, "phone_number")
                /\ Has(kw, "email_address") => kw["email_address"] = Str("jane@example.com")}}]}

TradeAccountKwargs ==
    {Passed(r) : r \in
        [id : {Missing, None, GoodUuidText, BadUuidText, UUID(GoodUuidText.v).v},
         account_number : {Str("A1")},
         status : {Enum("AccountStatus", "ACTIVE")},
         crypto_status : {Missing, None, Enum("AccountStatus", "ACTIVE")},
         buying_power : {Str("0")}, regt_buying_power : {Str("0")},
         daytrading_buying_power : {Str("0")}, non_marginable_buying_power : {Str("0")},
         cash : {Missing, Str("0")}, accrued_fees : {Str("0")}, portfolio_value : {Str("0")},
         pattern_day_trader : {PyBool(FALSE)}, trading_blocked : {PyBool(FALSE)},
         transfers_blocked : {PyBool(FALSE)}, account_blocked : {PyBool(FALSE)},
         created_at : {Datetime(2024, 1, 1)}, trade_suspended_by_user : {PyBool(FALSE)},
         multiplier : {Str("1")}, shorting_enabled : {PyBool(TRUE)}, equity : {Str("0")},
         last_equity : {Str("0")}, long_market_value : {Str("0")},
         short_market_value : {Str("0")}, initial_margin : {Str("0")},
         maintenance_margin : {Str("0")}, last_maintenance_margin : {Str("0")},
         sma : {Str("0")}, daytrade_count : {PyInt(0)},
         clearing_broker : {Missing, Bogus} \cup E("ClearingBroker")]}

KwargsOf(c) ==
    CASE c = "Contact" -> ContactKwargs
      [] c = "TrustedContact" -> TrustedContactKwargs
      [] c = "GetTradeDocumentsRequest" -> GetTradeDocumentsRequestKwargs
      [] c = "UploadDocumentRequest" -> UploadDocumentRequestKwargs
      [] c = "UploadW8BenDocumentRequest" -> UploadW8BenDocumentRequestKwargs
      [] c = "CreateBankRequest" -> CreateBankRequestKwargs
      [] c = "CreateACHTransferRequest" -> CreateACHTransferRequestKwargs
      [] c = "CreateBankTransferRequest" -> CreateBankTransferRequestKwargs
      [] c = "UpdatableContact" -> UpdatableContactKwargs
      [] c = "UpdatableIdentity" -> UpdatableIdentityKwargs
      [] c = "UpdatableDisclosures" -> UpdatableDisclosuresKwargs
      [] c = "UpdatableTrustedContact" -> UpdatableTrustedContactKwargs
      [] c = "AccountUpdateRequest" -> AccountUpdateRequestKwargs
      [] c = "ListAccountsRequest" -> ListAccountsRequestKwargs
      [] c = "GetAccountActivitiesRequest" -> GetAccountActivitiesRequestKwargs
      [] c = "ClosePositionRequest" -> ClosePositionRequestKwargs
      [] c = "GetPortfolioHistoryRequest" -> GetPortfolioHistoryRequestKwargs
      [] c = "CreateACHRelationshipRequest" -> CreateACHRelationshipRequestKwargs
      [] c = "CreatePlaidRelationshipRequest" -> CreatePlaidRelationshipRequestKwargs
      [] c = "GetTransfersRequest" -> GetTransfersRequestKwargs
      [] c = "Disclosures" -> DisclosuresKwargs
      [] c = "Account" -> AccountKwargs
      [] c = "TradeAccount" -> TradeAccountKwargs

Classes ==
    {"Contact", "TrustedContact", "GetTradeDocumentsRequest", "UploadDocumentRequest",
     "UploadW8BenDocumentRequest", "CreateBankRequest", "CreateACHTransferRequest",
     "CreateBankTransferRequest", "UpdatableContact", "UpdatableIdentity",
     "UpdatableDisclosures", "UpdatableTrustedContact", "AccountUpdateRequest",
     "ListAccountsRequest", "GetAccountActivitiesRequest", "ClosePositionRequest",
     "GetPortfolioHistoryRequest", "CreateACHRelationshipRequest",
     "CreatePlaidRelationshipRequest", "GetTransfersRequest", "Disclosures", "Account",
     "TradeAccount"}

\* fields before to_request_fields has been called
NotSerialized == [k \in {"<not called>"} |-> None]

\* the call c(**kwargs) that is about to be made
Init ==
    /\ cls \in Classes
    /\ kwargs \in KwargsOf(cls)
    /\ outcome = "pending"
    /\ obj = EmptyDict
    /\ fields = NotSerialized
    /\ assigned = "none"

\* the call c(**kwargs) runs to its end
Call(c) ==
    /\ cls = c
    /\ outcome = "pending"
    /\ LET r == Construct(c, kwargs)
       IN  /\ outcome' = r.outcome
           /\ obj' = r.obj
    /\ UNCHANGED <<cls, kwargs, fields, assigned>>

NewContact == Call("Contact")
NewTrustedContact == Call("TrustedContact")
NewGetTradeDocumentsRequest == Call("GetTradeDocumentsRequest")
NewUploadDocumentRequest == Call("UploadDocumentRequest")
NewUploadW8BenDocumentRequest == Call("UploadW8BenDocumentRequest")
NewCreateBankRequest == Call("CreateBankRequest")
NewCreateACHTransferRequest == Call("CreateACHTransferRequest")
NewCreateBankTransferRequest == Call("CreateBankTransferRequest")
NewUpdatableContact == Call("UpdatableContact")
NewUpdatableIdentity == Call("UpdatableIdentity")
NewUpdatableDisclosures == Call("UpdatableDisclosures")
NewUpdatableTrustedContact == Call("UpdatableTrustedContact")
NewAccountUpdateRequest == Call("AccountUpdateRequest")
NewListAccountsRequest == Call("ListAccountsRequest")
NewGetAccountActivitiesRequest == Call("GetAccountActivitiesRequest")
NewClosePositionRequest == Call("ClosePositionRequest")
NewGetPortfolioHistoryRequest == Call("GetPortfolioHistoryRequest")
NewCreateACHRelationshipRequest == Call("CreateACHRelationshipRequest")
NewCreatePlaidRelationshipRequest == Call("CreatePlaidRelationshipRequest")
NewGetTransfersRequest == Call("GetTransfersRequest")
NewDisclosures == Call("Disclosures")
NewAccount == Call("Account")
NewTradeAccount == Call("TradeAccount")

\* mutant: the serialization also strips the record itself
ToRequestFields_in_place ==
    /\ outcome = "ok"
    /\ cls \in NonEmptyRequests
    /\ fields = NotSerialized
    /\ fields' = to_request_fields(obj)
    /\ obj' = to_request_fields(obj)
    /\ UNCHANGED <<cls, kwargs, outcome, assigned>>

\* request.to_request_fields() on the record constructed
ToRequestFields ==
    /\ outcome = "ok"
    /\ cls \in NonEmptyRequests
    /\ fields = NotSerialized
    /\ fields' = to_request_fields(obj)
    /\ UNCHANGED <<cls, kwargs, outcome, obj, assigned>>

\* the values an assignment tries to store
AssignedValues == {None, Str("other"), PyBool(TRUE)}

\* record.name = value on the record constructed
SetAttr ==
    /\ outcome = "ok"
    /\ assigned = "none"
    /\ \E name \in DOMAIN obj, value \in AssignedValues :
           LET r == setattr(obj, name, value)
           IN  /\ obj' = r.self
               /\ assigned' = r.exc
    /\ UNCHANGED <<cls, kwargs, outcome, fields>>

Next ==
    \/ NewContact
    \/ NewTrustedContact
    \/ NewGetTradeDocumentsRequest
    \/ NewUploadDocumentRequest
    \/ NewUploadW8BenDocumentRequest
    \/ NewCreateBankRequest
    \/ NewCreateACHTransferRequest
    \/ NewCreateBankTransferRequest
    \/ NewUpdatableContact
    \/ NewUpdatableIdentity
    \/ NewUpdatableDisclosures
    \/ NewUpdatableTrustedContact
    \/ NewAccountUpdateRequest
    \/ NewListAccountsRequest
    \/ NewGetAccountActivitiesRequest
    \/ NewClosePositionRequest
    \/ NewGetPortfolioHistoryRequest
    \/ NewCreateACHRelationshipRequest
    \/ NewCreatePlaidRelationshipRequest
    \/ NewGetTransfersRequest
    \/ NewDisclosures
    \/ NewAccount
    \/ NewTradeAccount
    \/ ToRequestFields
    \/ SetAttr

Spec == Init /\ [][Next]_vars

(***************************************************************************)
(* Properties.                                                             *)
(***************************************************************************)
\* the call of class c has run
Done(c) == cls = c /\ outcome # "pending"
\* the caller passed argument k and it is not None
Given(k) == Has(kwargs, k) /\ ~IsNone(kwargs[k])
\* the caller passed argument k as the value x
GivenAs(k, x) == Has(kwargs, k) /\ PyEq(kwargs[k], x)

\* C1: a Contact with country "USA" and a null state (None or omitted) is
\* rejected with a validation error; with a non-null state and the other
\* required fields valid it is accepted.
C1_UsaContactNeedsState ==
    Done("Contact") =>
        /\ (GivenAs("country", Str("USA")) /\ ~Given("state")) => outcome = "ValidationError"
        /\ (/\ GivenAs("country", Str("USA"))
            /\ Given("state")
            /\ Given("email_address")
            /\ Given("city")) => outcome = "ok"

\* C2: with given_name and family_name valid, a TrustedContact is accepted
\* if and only if one of email_address, phone_number, street_address is
\* non-null, and is otherwise rejected with a validation error.
C2_TrustedContactNeedsOneMethod ==
    (Done("TrustedContact") /\ Given("given_name") /\ Given("family_name")) =>
        /\ outcome = "ok" <=>
               (Given("email_address") \/ Given("phone_number") \/ Given("street_address"))
        /\ outcome \in {"ok", "ValidationError"}

C2_Witness ==
    /\ Done("TrustedContact")
    /\ Given("given_name")
    /\ Given("family_name")
    /\ ~Given("email_address")
    /\ ~Given("phone_number")
    /\ ~Given("street_address")
    /\ outcome = "ValidationError"

\* the calendar date a bound of GetTradeDocumentsRequest stands for
BoundDate(x) == IF x.t = "date" THEN x ELSE fromisoformat(x.v).v
\* the bound is a date or a YYYY-MM-DD string, or is null
WellFormedBound(k) ==
    Given(k) => (kwargs[k].t = "date" \/ fromisoformat(kwargs[k].v).exc = "none")

\* C3: a GetTradeDocumentsRequest is rejected if and only if start and end
\* are both non-null and start is a later date than end, whether the bounds
\* are dates or YYYY-MM-DD strings.
C3_StartNotAfterEnd ==
    (Done("GetTradeDocumentsRequest") /\ WellFormedBound("start") /\ WellFormedBound("end")) =>
        /\ outcome = "ValidationError" <=>
               /\ Given("start")
               /\ Given("end")
               /\ DateGt(BoundDate(kwargs["start"]), BoundDate(kwargs["end"]))
        /\ outcome \in {"ok", "ValidationError"}

C3_Witness ==
    /\ Done("GetTradeDocumentsRequest")
    /\ GivenAs("start", Text(isoformat(Date(2024, 2, 1))))
    /\ GivenAs("end", Date(2024, 1, 1))
    /\ outcome = "ValidationError"

\* the mime type the caller passed goes with the content passed
MimeConsistent ==
    IF Given("content_data")
    THEN ~Has(kwargs, "mime_type") \/ GivenAs("mime_type", Enum("UploadDocumentMimeType", "JSON"))
    ELSE Has(kwargs, "mime_type") /\ kwargs["mime_type"] \in E("UploadDocumentMimeType")

\* C4: an UploadW8BenDocumentRequest is accepted only with exactly one of
\* content and content_data non-null, and with exactly one of them and a
\* consistent mime type it is accepted.
C4_ExactlyOneContent ==
    Done("UploadW8BenDocumentRequest") =>
        /\ outcome = "ok" => (Given("content") # Given("content_data"))
        /\ ((Given("content") # Given("content_data")) /\ MimeConsistent) => outcome = "ok"

C4_Witness ==
    /\ Done("UploadW8BenDocumentRequest")
    /\ Given("content")
    /\ Given("content_data")
    /\ MimeConsistent
    /\ outcome = "ValidationError"

\* C5: every UploadW8BenDocumentRequest constructed has document_type W8BEN
\* and document_sub_type FORM_W8_BEN; a different value passed by the
\* caller is replaced and does not make the construction fail.
C5_W8BenTypesPinned ==
    Done("UploadW8BenDocumentRequest") =>
        /\ outcome = "ok" =>
               /\ PyEq(obj["document_type"], Enum("DocumentType", "W8BEN"))
               /\ PyEq(obj["document_sub_type"], Enum("UploadDocumentSubType", "FORM_W8_BEN"))
        /\ ((Given("content") # Given("content_data")) /\ MimeConsistent) => outcome = "ok"

C5_Witness ==
    /\ Done("UploadW8BenDocumentRequest")
    /\ GivenAs("document_type", Enum("DocumentType", "IDENTITY_VERIFICATION"))
    /\ GivenAs("document_sub_type", Enum("UploadDocumentSubType", "PASSPORT"))
    /\ outcome = "ok"
    /\ PyEq(obj["document_type"], Enum("DocumentType", "W8BEN"))

\* C6: with content_data set and content unset, an omitted mime_type
\* becomes JSON and the request is accepted, a mime_type other than JSON is
\* rejected, and every accepted request with content_data has mime_type JSON.
C6_ContentDataIsJson ==
    (Done("UploadW8BenDocumentRequest") /\ Given("content_data")) =>
        /\ (~Given("content") /\ ~Has(kwargs, "mime_type")) =>
               outcome = "ok" /\ PyEq(obj["mime_type"], Enum("UploadDocumentMimeType", "JSON"))
        /\ (/\ ~Given("content")
            /\ Has(kwargs, "mime_type")
            /\ ~PyEq(kwargs["mime_type"], Enum("UploadDocumentMimeType", "JSON"))) => outcome # "ok"
        /\ outcome = "ok" => PyEq(obj["mime_type"], Enum("UploadDocumentMimeType", "JSON"))

C6_Witness ==
    /\ Done("UploadW8BenDocumentRequest")
    /\ Given("content_data")
    /\ ~Given("content")
    /\ ~Has(kwargs, "mime_type")
    /\ outcome = "ok"

\* the required fields of a CreateBankRequest other than bank_code_type are valid
BankBasicsValid == Given("name") /\ Given("bank_code") /\ Given("account_number")

\* C7: a CreateBankRequest with bank_code_type BIC is accepted if and only
\* if all five international fields are set.
C7_BicNeedsInternational ==
    (/\ Done("CreateBankRequest")
     /\ GivenAs("bank_code_type", Enum("IdentifierType", "BIC"))
     /\ BankBasicsValid) =>
        /\ outcome = "ok" <=> \A p \in international_parameters : Given(p)
        /\ outcome \in {"ok", "ValidationError"}

C7_Witness ==
    /\ Done("CreateBankRequest")
    /\ GivenAs("bank_code_type", Enum("IdentifierType", "BIC"))
    /\ BankBasicsValid
    /\ Cardinality({p \in international_parameters : Given(p)}) = 4
    /\ outcome = "ValidationError"

\* C8: a CreateBankRequest with bank_code_type ABA is accepted if and only
\* if none of the five international fields is set.
C8_AbaForbidsInternational ==
    (/\ Done("CreateBankRequest")
     /\ GivenAs("bank_code_type", Enum("IdentifierType", "ABA"))
     /\ BankBasicsValid) =>
        /\ outcome = "ok" <=> \A p \in international_parameters : ~Given(p)
        /\ outcome \in {"ok", "ValidationError"}

C8_Witness ==
    /\ Done("CreateBankRequest")
    /\ GivenAs("bank_code_type", Enum("IdentifierType", "ABA"))
    /\ BankBasicsValid
    /\ Cardinality({p \in international_parameters : Given(p)}) = 1
    /\ Given("street_address")
    /\ outcome = "ValidationError"

\* C9: an UploadDocumentRequest is rejected whenever document_type is W8BEN
\* or document_sub_type is FORM_W8_BEN, and accepted for every other valid
\* document_type and document_sub_type (or none) with content and mime_type
\* supplied.
C9_NoW8BenUpload ==
    Done("UploadDocumentRequest") =>
        /\ (\/ GivenAs("document_type", Enum("DocumentType", "W8BEN"))
            \/ GivenAs("document_sub_type", Enum("UploadDocumentSubType", "FORM_W8_BEN")))
               => outcome # "ok"
        /\ (/\ Given("document_type")
            /\ ~GivenAs("document_type", Enum("DocumentType", "W8BEN"))
            /\ ~GivenAs("document_sub_type", Enum("UploadDocumentSubType", "FORM_W8_BEN"))
            /\ (Given("document_sub_type")
                   => kwargs["document_sub_type"] \in E("UploadDocumentSubType"))
            /\ Given("content")
            /\ Given("mime_type")) => outcome = "ok"

C9_Witness ==
    /\ Done("UploadDocumentRequest")
    /\ GivenAs("document_type", Enum("DocumentType", "IDENTITY_VERIFICATION"))
    /\ GivenAs("document_sub_type", Enum("UploadDocumentSubType", "FORM_W8_BEN"))
    /\ Given("content")
    /\ Given("mime_type")
    /\ outcome = "ValidationError"

\* the string denotes a number strictly greater than zero
DenotesPositive(s) ==
    /\ float(s).exc = "none"
    /\ float(s).v.kind = "finite"
    /\ float(s).v.num > 0

\* the fields of a transfer request other than amount are valid
TransferBasicsValid ==
    /\ Given("direction")
    /\ Given("timing")
    /\ ~Has(kwargs, "transfer_type")

\* C10: a CreateACHTransferRequest or CreateBankTransferRequest is accepted
\* if and only if its amount string denotes a number strictly greater than
\* zero, and is otherwise rejected with a validation error.
C10_AmountPositive ==
    ((Done("CreateACHTransferRequest") \/ Done("CreateBankTransferRequest")) /\ TransferBasicsValid) =>
        /\ outcome = "ok" <=> DenotesPositive(kwargs["amount"].v)
        /\ outcome \in {"ok", "ValidationError"}

\* the transfer type a transfer request class is pinned to
PinnedTransferType(c) ==
    IF c = "CreateACHTransferRequest" THEN Enum("TransferType", "ACH") ELSE Enum("TransferType", "WIRE")

\* C11: every CreateACHTransferRequest constructed has transfer_type ACH and
\* every CreateBankTransferRequest WIRE; an omitted transfer_type becomes
\* the pinned value and any other transfer type passed is rejected with a
\* validation error.
C11_TransferTypePinned ==
    (Done("CreateACHTransferRequest") \/ Done("CreateBankTransferRequest")) =>
        /\ outcome = "ok" => PyEq(obj["transfer_type"], PinnedTransferType(cls))
        /\ (Has(kwargs, "transfer_type") /\ ~PyEq(kwargs["transfer_type"], PinnedTransferType(cls)))
               => outcome = "ValidationError"
        /\ (/\ ~Has(kwargs, "transfer_type")
            /\ Given("direction")
            /\ DenotesPositive(kwargs["amount"].v)) => outcome = "ok"

C11_Witness ==
    /\ Done("CreateACHTransferRequest")
    /\ GivenAs("transfer_type", Enum("TransferType", "WIRE"))
    /\ Given("direction")
    /\ DenotesPositive(kwargs["amount"].v)
    /\ outcome = "ValidationError"

\* to_request_fields has been called on the record constructed
Serialized == outcome = "ok" /\ fields # NotSerialized

\* the fields of a nested record (a dict or an instance) that are set
SetFields(a) == {f \in DOMAIN a.v : ~IsNone(a.v[f])}
\* the nested records that were passed with something set
SetRecords == {r \in DOMAIN kwargs : ~IsNone(kwargs[r]) /\ SetFields(kwargs[r]) # {}}
\* exactly one field of exactly one nested record is set
OneNestedField ==
    /\ Cardinality(SetRecords) = 1
    /\ \A r \in SetRecords : Cardinality(SetFields(kwargs[r])) = 1

\* C12: for an AccountUpdateRequest with exactly one field of exactly one
\* nested record set, to_request_fields returns exactly one top-level key,
\* that record, whose value is a dict of exactly that field and its value.
C12_MinimalNestedDict ==
    (cls = "AccountUpdateRequest" /\ outcome # "pending" /\ OneNestedField) =>
        /\ outcome = "ok"
        /\ Serialized =>
               \A r \in SetRecords : \A f \in SetFields(kwargs[r]) :
                   /\ DOMAIN fields = {r}
                   /\ fields[r].t = "dict"
                   /\ DOMAIN fields[r].v = {f}
                   /\ PyEq(fields[r].v[f], kwargs[r].v[f])

C12_Witness ==
    /\ cls = "AccountUpdateRequest"
    /\ Serialized
    /\ OneNestedField
    /\ SetRecords = {"trusted_contact"}
    /\ SetFields(kwargs["trusted_contact"]) = {"given_name"}
    /\ DOMAIN fields = {"trusted_contact"}

\* x is an empty string, an empty list or an empty dict
IsEmpty(x) ==
    CASE x.t = "str" -> x.v = ""
      [] x.t = "text" -> Len(x.v) = 0
      [] x.t = "dict" -> DOMAIN x.v = {}
      [] x.t \in ListTypes -> Len(x.v) = 0
      [] OTHER -> FALSE

\* no None in x, nor in a dict in x
NoNull(x) ==
    /\ ~IsNone(x)
    /\ x.t = "dict" => \A f \in DOMAIN x.v :
           /\ ~IsNone(x.v[f])
           /\ x.v[f].t = "dict" => \A g \in DOMAIN x.v[f].v : ~IsNone(x.v[f].v[g])

\* C13: the dict to_request_fields returns has no null at any depth and no
\* top-level key whose value is an empty string, list or dict.
C13_NoNullNoEmpty ==
    Serialized => \A k \in DOMAIN fields : NoNull(fields[k]) /\ ~IsEmpty(fields[k])

C13_Witness ==
    /\ cls = "AccountUpdateRequest"
    /\ Serialized
    /\ "contact" \in DOMAIN fields
    /\ \E f \in DOMAIN obj["contact"].v : IsNone(obj["contact"].v[f])
    /\ Has(obj, "identity")
    /\ ~IsNone(obj["identity"])
    /\ "identity" \notin DOMAIN fields

UpdateVariants ==
    {"UpdatableContact", "UpdatableIdentity", "UpdatableDisclosures", "UpdatableTrustedContact"}

C15_OnlyValidationFailures ==
    outcome \in {"pending", "ok", "ValidationError", "ValueError"}

\* C16: a GetAccountActivitiesRequest is rejected whenever date is set with
\* after or with until, and accepted with date alone or with after and/or
\* until and no date.
C16_DateExcludesAfterUntil ==
    (Done("GetAccountActivitiesRequest") /\ ~GivenAs("account_id", BadUuidText)) =>
        /\ outcome = "ValidationError" <=> (Given("date") /\ (Given("after") \/ Given("until")))
        /\ outcome \in {"ok", "ValidationError"}

C16_Witness ==
    /\ Done("GetAccountActivitiesRequest")
    /\ Given("date")
    /\ Given("until")
    /\ ~Given("after")
    /\ outcome = "ValidationError"

\* C17: every ListAccountsRequest constructed has a non-null sort: DESC when
\* sort is omitted or None, and the value passed otherwise.
C17_SortDefaultsToDesc ==
    Done("ListAccountsRequest") =>
        /\ outcome = "ok" => ~IsNone(obj["sort"])
        /\ ~Given("sort") => (outcome = "ok" /\ PyEq(obj["sort"], Enum("Sort", "DESC")))
        /\ (Given("sort") /\ kwargs["sort"] \in E("Sort"))
               => (outcome = "ok" /\ PyEq(obj["sort"], kwargs["sort"]))

C17_Witness ==
    /\ Done("ListAccountsRequest")
    /\ Has(kwargs, "sort")
    /\ IsNone(kwargs["sort"])
    /\ outcome = "ok"
    /\ PyEq(obj["sort"], Enum("Sort", "DESC"))

C19_DateEndParsed ==
    Done("GetPortfolioHistoryRequest") =>
        /\ (Given("date_end") /\ kwargs["date_end"] \in DateTexts) =>
               /\ outcome = "ok"
               /\ PyEq(obj["date_end"], fromisoformat(kwargs["date_end"].v).v)
        /\ GivenAs("date_end", BadDateText) => outcome = "ValidationError"
        /\ ~Has(kwargs, "date_end") => (outcome = "ok" /\ IsNone(obj["date_end"]))

\* x is null or empty: None, an empty string, an empty list, or a nested
\* record with nothing set
NullOrEmpty(x) ==
    \/ IsNone(x)
    \/ IsEmpty(x)
    \/ x.t \in ModelTypes /\ \A f \in DOMAIN x.v : IsNone(x.v[f])

\* C20: to_request_fields leaves out a top-level field only when its value
\* is null or empty; a field set to a non-null scalar such as False or 0 is
\* in the result with that value.
C20_OnlyNullOrEmptyOmitted ==
    Serialized => \A k \in DOMAIN obj :
        /\ k \in DOMAIN fields <=> ~NullOrEmpty(obj[k])
        /\ (k \in DOMAIN fields /\ obj[k].t \notin ModelTypes) => PyEq(fields[k], obj[k])

\* the sub-records of an Account
SubRecords == {"contact", "identity", "disclosures", "agreements", "documents", "trusted_contact"}

\* the fields named are set in the dict d
AllSet(d, names) == \A n \in names : Has(d.v, n) /\ ~IsNone(d.v[n])

\* the sub-record x under key k of a response meets the rules of its record
MeetsRules(k, x) ==
    CASE IsNone(x) -> FALSE
      [] k = "contact" ->
            /\ AllSet(x, {"email_address", "phone_number", "street_address", "city"})
            /\ (Has(x.v, "country") /\ PyEq(x.v["country"], Str("USA"))) => AllSet(x, {"state"})
      [] k = "identity" ->
            AllSet(x, {"given_name", "family_name", "date_of_birth", "country_of_tax_residence"})
      [] k = "disclosures" ->
            AllSet(x, {"is_control_person", "is_affiliated_exchange_or_finra",
                       "is_politically_exposed", "immediate_family_exposed"})
      [] k = "agreements" ->
            \A i \in 1..Len(x.v) : AllSet(x.v[i], {"agreement", "signed_at", "ip_address"})
      [] k = "documents" -> TRUE
      [] k = "trusted_contact" ->
            /\ AllSet(x, {"given_name", "family_name"})
            /\ \E m \in {"email_address", "phone_number", "street_address"} : AllSet(x, {m})

\* C21: an Account constructed from a response has null for each
\* sub-record whose key is absent, and the construction fails whenever a
\* sub-record that is present breaks the rules of its record.
C21_SubRecordsValidated ==
    (Done("Account") /\ outcome = "ok") =>
        \A k \in SubRecords :
            /\ ~Has(kwargs, k) => IsNone(obj[k])
            /\ Has(kwargs, k) => MeetsRules(k, kwargs[k])

\* the update variant of a base record
UpdateVariant(c) ==
    CASE c = "Contact" -> "UpdatableContact"
      [] c = "TrustedContact" -> "UpdatableTrustedContact"
      [] c = "Disclosures" -> "UpdatableDisclosures"

\* C22: the arguments with which Contact, TrustedContact or Disclosures is
\* constructed are accepted by the update variant too, and the two records
\* have equal field values.
C22_UpdateVariantAcceptsBase ==
    (cls \in {"Contact", "TrustedContact", "Disclosures"} /\ outcome = "ok") =>
        /\ Construct(UpdateVariant(cls), kwargs).outcome = "ok"
        /\ Construct(UpdateVariant(cls), kwargs).obj = obj

C22_Witness ==
    /\ cls = "Contact"
    /\ outcome = "ok"
    /\ Given("state")
    /\ Given("country")
    /\ Construct("UpdatableContact", kwargs).obj = obj

\* C23: the dict to_request_fields returns for a CreateBankRequest
\* constructed with bank_code_type BIC has the five international fields
\* and name, bank_code_type, bank_code and account_number.
C23_BicPayloadComplete ==
    (/\ cls = "CreateBankRequest"
     /\ Serialized
     /\ PyEq(obj["bank_code_type"], Enum("IdentifierType", "BIC"))) =>
        international_parameters \cup {"name", "bank_code_type", "bank_code", "account_number"}
            \subseteq DOMAIN fields

\* C24: the dict to_request_fields returns for a CreateACHTransferRequest
\* has transfer_type ACH and for a CreateBankTransferRequest WIRE, passed
\* or not, and has amount, direction and timing.
C24_TransferPayload ==
    (cls \in {"CreateACHTransferRequest", "CreateBankTransferRequest"} /\ Serialized) =>
        /\ {"transfer_type", "amount", "direction", "timing"} \subseteq DOMAIN fields
        /\ PyEq(fields["transfer_type"], PinnedTransferType(cls))
        /\ fields["amount"] = obj["amount"]

C24_Witness ==
    /\ cls = "CreateACHTransferRequest"
    /\ Serialized
    /\ ~Has(kwargs, "transfer_type")
    /\ PyEq(fields["transfer_type"], Enum("TransferType", "ACH"))

\* the argument that holds the identifier, and the arguments that could make
\* the construction fail for another reason
IdKey == IF cls = "GetAccountActivitiesRequest" THEN "account_id" ELSE "id"
OnlyIdVaries ==
    CASE cls = "Account" -> DOMAIN kwargs \cap SubRecords = {}
      [] cls = "TradeAccount" -> Has(kwargs, "cash") /\ ~Has(kwargs, "clearing_broker")
      [] cls = "GetAccountActivitiesRequest" -> ~Has(kwargs, "date")

\* C25: Account.id, TradeAccount.id and
\* GetAccountActivitiesRequest.account_id accept a UUID string and a UUID,
\* store the same UUID for both, and reject a malformed string.
C25_UniformIdCoercion ==
    (/\ cls \in {"Account", "TradeAccount", "GetAccountActivitiesRequest"}
     /\ outcome # "pending"
     /\ Has(kwargs, IdKey)
     /\ OnlyIdVaries) =>
        /\ kwargs[IdKey] \in {GoodUuidText, UUID(GoodUuidText.v).v} =>
               outcome = "ok" /\ obj[IdKey] = UUID(GoodUuidText.v).v
        /\ kwargs[IdKey] = BadUuidText => outcome # "ok"
====
